---- MODULE Spec2Model ----
(***************************************************************************)
(* Model of rtk's two summarisation pipelines:                             *)
(*   src/src/grep_cmd.rs  run, clean_line, compact_path                    *)
(*   src/src/json_cmd.rs  extract_schema                                   *)
(* Text (Rust str/String) is a sequence of one-character strings, so that  *)
(* trimming, splitting, slicing and formatting are computed, not assumed.  *)
(* All modelled text is ASCII: one character is one byte, as in str::len.  *)
(***************************************************************************)
EXTENDS Integers, Sequences, FiniteSets, TLC

VARIABLES
    pc,             \* position of the running call
    line,           \* clean_line: argument line
    max_len,        \* clean_line: argument max_len
    context_only,   \* clean_line / run: argument context_only
    pattern,        \* clean_line / run: argument pattern
    cleaned,        \* clean_line: outcome [panic, text]
    file,           \* compact_path: argument (run passes `file`)
    file_display,   \* compact_path(file)
    file_display2,  \* compact_path(file_display)
    stdout,         \* run: the search tool's output, as its lines
    path,           \* run: argument path
    max_line_len,   \* run: argument max_line_len
    max_results,    \* run: argument max_results
    by_file,        \* run: file -> sequence of <<line_num, cleaned>>
    total,          \* run: number of raw matches
    shown,          \* run: number of match rows rendered
    files,          \* run: the keys of by_file, sorted
    fidx,           \* run: position of the outer loop in files
    midx,           \* run: position of the inner loop in matches
    rtk_output,     \* run: the report, as its newline-terminated lines
    value,          \* extract_schema: argument value
    depth,          \* extract_schema: argument depth
    max_depth,      \* extract_schema: argument max_depth
    schema,         \* extract_schema(value, depth, max_depth)
    value2,         \* a second array, same length and first element
    schema2         \* extract_schema(value2, depth, max_depth)

cleanVars == <<line, max_len, cleaned>>
sharedVars == <<context_only, pattern>>
pathVars == <<file, file_display, file_display2>>
grepVars == <<stdout, path, max_line_len, max_results, by_file, total,
              shown, files, fidx, midx, rtk_output>>
jsonVars == <<value, depth, max_depth, schema, value2, schema2>>
vars == <<pc, cleanVars, sharedVars, pathVars, grepVars, jsonVars>>

----------------------------------------------------------------------------
(* Text primitives (Rust std)                                              *)

\* The characters the model uses, in byte order (str's Ord is bytewise).
Ascii ==
    <<"\t", " ", "'", "(", ")", "+", ",", "-", ".", "/",
      "0", "1", "2", "3", "4", "5", "6", "7", "8", "9", ":",
      "A", "B", "F", "[", "]",
      "a", "b", "c", "d", "e", "f", "g", "h", "i", "k", "l", "m", "n", "o",
      "p", "r", "s", "t", "u", "x", "y", "z", "{", "}">>

Code(c) == CHOOSE i \in 1..Len(Ascii) : Ascii[i] = c

\* char::is_whitespace, on the characters of the model
IsWhitespace(c) == c \in {" ", "\t", "\n"}

\* char::to_lowercase, on the characters of the model
LowerChar(c) == IF c = "A" THEN "a" ELSE IF c = "B" THEN "b" ELSE c

\* str::to_lowercase
ToLowercase(s) == [i \in 1..Len(s) |-> LowerChar(s[i])]

Min(a, b) == IF a <= b THEN a ELSE b

\* usize::saturating_sub
SaturatingSub(a, b) == IF a >= b THEN a - b ELSE 0

\* str::trim
Trim(s) ==
    LET keep == {i \in 1..Len(s) : ~IsWhitespace(s[i])}
    IN  IF keep = {} THEN <<>>
        ELSE LET first == CHOOSE i \in keep : \A j \in keep : i <= j
                 last == CHOOSE i \in keep : \A j \in keep : j <= i
             IN  SubSeq(s, first, last)

\* Whether needle occurs in hay at byte offset i (0-based).
OccursAt(hay, needle, i) ==
    /\ i + Len(needle) <= Len(hay)
    /\ SubSeq(hay, i + 1, i + Len(needle)) = needle

None == -1

\* str::find: the first byte offset of needle in hay, or None
Find(hay, needle) ==
    LET hits == {i \in 0..Len(hay) : OccursAt(hay, needle, i)}
    IN  IF hits = {} THEN None
        ELSE CHOOSE i \in hits : \A j \in hits : i <= j

\* str::repeat
RECURSIVE Repeat(_, _)
Repeat(s, n) == IF n <= 0 THEN <<>> ELSE s \o Repeat(s, n - 1)

\* Display of an unsigned integer: its decimal digits
RECURSIVE Digits(_)
Digits(n) ==
    LET d == SubSeq(Ascii, Code("0") + (n % 10), Code("0") + (n % 10))
    IN  IF n < 10 THEN d ELSE Digits(n \div 10) \o d

\* str < str: bytewise lexicographic order
RECURSIVE StrLess(_, _)
StrLess(a, b) ==
    IF b = <<>> THEN FALSE
    ELSE IF a = <<>> THEN TRUE
    ELSE IF a[1] # b[1] THEN Code(a[1]) < Code(b[1])
    ELSE StrLess(Tail(a), Tail(b))

\* slice::sort on strings (insertion of each element at its place)
RECURSIVE InsertSorted(_, _)
InsertSorted(s, x) ==
    IF s = <<>> THEN <<x>>
    ELSE IF StrLess(x, s[1]) THEN <<x>> \o s
    ELSE <<s[1]>> \o InsertSorted(Tail(s), x)

RECURSIVE SortStrings(_)
SortStrings(s) ==
    IF s = <<>> THEN <<>>
    ELSE InsertSorted(SortStrings(SubSeq(s, 1, Len(s) - 1)), s[Len(s)])

\* str::split(sep): the pieces between the occurrences of the character sep
RECURSIVE Split(_, _)
Split(s, sep) ==
    LET hits == {i \in 1..Len(s) : s[i] = sep}
    IN  IF hits = {} THEN <<s>>
        ELSE LET i == CHOOSE k \in hits : \A j \in hits : k <= j
             IN  <<SubSeq(s, 1, i - 1)>> \o Split(SubSeq(s, i + 1, Len(s)), sep)

\* str::splitn(n, sep): at most n pieces, the last one holding the rest
RECURSIVE SplitN(_, _, _)
SplitN(s, n, sep) ==
    LET hits == {i \in 1..Len(s) : s[i] = sep}
    IN  IF n <= 1 \/ hits = {} THEN <<s>>
        ELSE LET i == CHOOSE k \in hits : \A j \in hits : k <= j
             IN  <<SubSeq(s, 1, i - 1)>>
                 \o SplitN(SubSeq(s, i + 1, Len(s)), n - 1, sep)

StartsWith(s, p) == Len(p) <= Len(s) /\ SubSeq(s, 1, Len(p)) = p

Dots == <<".", ".", ".">>

----------------------------------------------------------------------------
(* grep_cmd.rs: clean_line                                                 *)

\* The `.{0,20}` of the context regex
ContextLead == 20

\* Regex::find of "(?i).{0,20}<escaped pattern>.*" in trimmed: the leftmost
\* start from which at most ContextLead characters lead to an occurrence of
\* the pattern, ignoring case; `.*` then runs to the end of the line (a line
\* holds no newline).  Not found when the pattern does not occur.  The
\* pattern is escaped, so Regex::new succeeds and the pattern is literal.
ContextMatch(trimmed, pat) ==
    LET lower == ToLowercase(trimmed)
        plow == ToLowercase(pat)
        starts == {s \in 0..Len(trimmed) :
                     \E k \in 0..ContextLead : OccursAt(lower, plow, s + k)}
    IN  IF starts = {} THEN [found |-> FALSE, text |-> <<>>]
        ELSE LET s == CHOOSE x \in starts : \A y \in starts : x <= y
             IN  [found |-> TRUE, text |-> SubSeq(trimmed, s + 1, Len(trimmed))]

Returned(text) == [panic |-> FALSE, text |-> text]
Panicked == [panic |-> TRUE, text |-> <<>>]

EllipsisLen == 3

\* The fallback of clean_line, `format!("{}...", &trimmed[..max_len - 3])`.
\* For max_len < 3 the usize subtraction overflows: a debug build panics on
\* it, a release build wraps to an index beyond the line and the slice
\* panics.
Fallback(trimmed, maxlen) ==
    IF maxlen < EllipsisLen THEN Panicked
    ELSE Returned(SubSeq(trimmed, 1, maxlen - EllipsisLen) \o Dots)

\* The window around the pattern found at byte offset pos
Window(trimmed, maxlen, pos) ==
    LET start0 == SaturatingSub(pos, maxlen \div 3)
        end == Min(start0 + maxlen, Len(trimmed))
        start == IF end = Len(trimmed) THEN SaturatingSub(end, maxlen)
                 ELSE start0
        slice == SubSeq(trimmed, start + 1, end)
    IN  IF start > 0 /\ end < Len(trimmed) THEN Returned(Dots \o slice \o Dots)
        ELSE IF start > 0 THEN Returned(Dots \o slice)
        ELSE Returned(slice \o Dots)

clean_line(ln, maxlen, ctx, pat) ==
    LET trimmed == Trim(ln)
        m == ContextMatch(trimmed, pat)
    IN  IF ctx /\ m.found /\ Len(m.text) <= maxlen THEN Returned(m.text)
        ELSE IF Len(trimmed) <= maxlen THEN Returned(trimmed)
        ELSE LET pos == Find(ToLowercase(trimmed), ToLowercase(pat))
             IN  IF pos # None THEN Window(trimmed, maxlen, pos)
                 ELSE Fallback(trimmed, maxlen)

----------------------------------------------------------------------------
(* grep_cmd.rs: compact_path                                               *)

PathLimit == 50
SegmentLimit == 3

\* compact_path keeping the second segment in place of the first
compact_path_second(p) ==
    IF Len(p) <= PathLimit THEN p
    ELSE LET parts == Split(p, "/")
         IN  IF Len(parts) <= SegmentLimit THEN p
             ELSE parts[2] \o <<"/">> \o Dots \o <<"/">>
                  \o parts[Len(parts) - 1] \o <<"/">> \o parts[Len(parts)]

compact_path(p) ==
    IF Len(p) <= PathLimit THEN p
    ELSE LET parts == Split(p, "/")
         IN  IF Len(parts) <= SegmentLimit THEN p
             ELSE parts[1] \o <<"/">> \o Dots \o <<"/">>
                  \o parts[Len(parts) - 1] \o <<"/">> \o parts[Len(parts)]

----------------------------------------------------------------------------
(* Idle values of the variables a specification does not use               *)

CleanIdle == line = <<>> /\ max_len = 0 /\ cleaned = Returned(<<>>)
SharedIdle == context_only = FALSE /\ pattern = <<>>
PathIdle == file = <<>> /\ file_display = <<>> /\ file_display2 = <<>>
GrepIdle ==
    /\ stdout = <<>> /\ path = <<>> /\ max_line_len = 0 /\ max_results = 0
    /\ by_file = <<>> /\ total = 0 /\ shown = 0 /\ files = <<>>
    /\ fidx = 0 /\ midx = 0 /\ rtk_output = <<>>

JsonIdle ==
    /\ value = <<>> /\ depth = 0 /\ max_depth = 0 /\ schema = <<>>
    /\ value2 = <<>> /\ schema2 = <<>>

----------------------------------------------------------------------------
(* Specification of clean_line                                             *)

MaxLineLen == 5
MaxMaxLen == 4

RECURSIVE SeqsUpTo(_, _)
SeqsUpTo(S, n) ==
    IF n = 0 THEN {<<>>}
    ELSE LET shorter == SeqsUpTo(S, n - 1)
         IN  shorter \cup {Append(s, c) : s \in shorter, c \in S}

LineChars == {" ", "a", "A", "b"}
Lines == SeqsUpTo(LineChars, MaxLineLen)
Patterns == {<<"a">>, <<"A", "b">>, <<"b", "b">>, <<>>}

CleanInit ==
    /\ pc = "call"
    /\ line \in Lines
    /\ max_len \in 0..MaxMaxLen
    /\ context_only \in BOOLEAN
    /\ pattern \in Patterns
    /\ cleaned = Returned(<<>>)
    /\ PathIdle /\ GrepIdle /\ JsonIdle

CallCleanLine ==
    /\ pc = "call"
    /\ cleaned' = clean_line(line, max_len, context_only, pattern)
    /\ pc' = IF cleaned'.panic THEN "panic" ELSE "done"
    /\ UNCHANGED <<line, max_len, sharedVars, pathVars, grepVars, jsonVars>>

CleanNext == CallCleanLine

SpecClean == CleanInit /\ [][CleanNext]_vars

----------------------------------------------------------------------------
(* Specification of compact_path                                           *)

MaxSegments == 5

Long20 == Repeat(<<"d">>, 20)
Long30 == Repeat(<<"e">>, 30)
Segments == {<<>>, <<"a">>, <<"s", "r", "c">>, Long20, Long30}

RECURSIVE Join(_, _)
Join(parts, sep) ==
    IF parts = <<>> THEN <<>>
    ELSE IF Len(parts) = 1 THEN parts[1]
    ELSE parts[1] \o sep \o Join(Tail(parts), sep)

Paths ==
    {Join(ps, <<"/">>) :
        ps \in UNION {[1..n -> Segments] : n \in 1..MaxSegments}}

PathInit ==
    /\ pc = "call"
    /\ file \in Paths
    /\ file_display = <<>>
    /\ file_display2 = <<>>
    /\ CleanIdle /\ SharedIdle /\ GrepIdle /\ JsonIdle

CompactPath ==
    /\ pc = "call"
    /\ file_display' = compact_path(file)
    /\ pc' = "compacted"
    /\ UNCHANGED <<file, file_display2, cleanVars, sharedVars, grepVars, jsonVars>>

CompactAgain ==
    /\ pc = "compacted"
    /\ file_display2' = compact_path(file_display)
    /\ pc' = "done"
    /\ UNCHANGED <<file, file_display, cleanVars, sharedVars, grepVars, jsonVars>>

PathNext == CompactPath \/ CompactAgain

SpecPath == PathInit /\ [][PathNext]_vars

----------------------------------------------------------------------------
(* grep_cmd.rs: run                                                        *)

\* The two emoji of the report, each one character of the text
Mag == <<"U+1F50D">>
Page == <<"U+1F4C4">>

IsDigit(c) == c \in {"0", "1", "2", "3", "4", "5", "6", "7", "8", "9"}

RECURSIVE DigitsValue(_)
DigitsValue(s) ==
    IF s = <<>> THEN 0
    ELSE 10 * DigitsValue(SubSeq(s, 1, Len(s) - 1))
         + (Code(s[Len(s)]) - Code("0"))

\* `parts[i].parse().unwrap_or(0)` for usize: an optional `+`, then one or
\* more decimal digits; anything else is an error, hence 0.
ParseOrZero(s) ==
    LET body == IF s # <<>> /\ s[1] = "+" THEN Tail(s) ELSE s
    IN  IF body # <<>> /\ \A i \in 1..Len(body) : IsDigit(body[i])
        THEN DigitsValue(body)
        ELSE 0

\* `stdout.trim().is_empty()`: newlines are whitespace, so the output is
\* blank when each of its lines is.
IsBlank(out) == \A i \in 1..Len(out) : Trim(out[i]) = <<>>

\* One output line as a raw match, or skipped
RawMatch(ln, searchPath) ==
    LET parts == SplitN(ln, 3, ":")
    IN  IF Len(parts) = 3
        THEN [skip |-> FALSE, file |-> parts[1],
              line_num |-> ParseOrZero(parts[2]), content |-> parts[3]]
        ELSE IF Len(parts) = 2
        THEN [skip |-> FALSE, file |-> searchPath,
              line_num |-> ParseOrZero(parts[1]), content |-> parts[2]]
        ELSE [skip |-> TRUE, file |-> <<>>, line_num |-> 0, content |-> <<>>]

\* `by_file.entry(file).or_default().push(m)`
PushMatch(map, f, m) ==
    IF f \in DOMAIN map THEN [map EXCEPT ![f] = Append(@, m)]
    ELSE [g \in DOMAIN map \cup {f} |-> IF g = f THEN <<m>> ELSE map[g]]

EmptyMap == [f \in {} |-> <<>>]

\* The loop over stdout.lines(): the grouped matches and their number, or
\* the panic of clean_line.
RECURSIVE Group(_, _, _, _, _, _)
Group(out, acc, searchPath, maxlen, ctx, pat) ==
    IF out = <<>> \/ acc.panic THEN acc
    ELSE LET rm == RawMatch(out[1], searchPath)
             c == clean_line(rm.content, maxlen, ctx, pat)
             next ==
                IF rm.skip THEN acc
                ELSE IF c.panic THEN [acc EXCEPT !.panic = TRUE]
                ELSE [panic |-> FALSE,
                      total |-> acc.total + 1,
                      by_file |-> PushMatch(acc.by_file, rm.file,
                                            <<rm.line_num, c.text>>)]
         IN  Group(Tail(out), next, searchPath, maxlen, ctx, pat)

\* `by_file.iter().collect()`: the keys in some order
RECURSIVE Keys(_)
Keys(S) ==
    IF S = {} THEN <<>>
    ELSE LET f == CHOOSE x \in S : TRUE IN <<f>> \o Keys(S \ {f})

\* `{:>4}`: right-aligned in at least 4 columns
LineNumWidth == 4
PadLeft(s, w) == Repeat(<<" ">>, w - Len(s)) \o s

PerFileCap == 10

ZeroMsg(pat) == Mag \o <<" ", "0", " ", "f", "o", "r", " ", "'">> \o pat \o <<"'">>
Header(n, nfiles) ==
    Mag \o <<" ">> \o Digits(n) \o <<" ", "i", "n", " ">> \o Digits(nfiles)
        \o <<"F", ":">>
FileHeader(display, n) ==
    Page \o <<" ">> \o display \o <<" ", "(">> \o Digits(n) \o <<")", ":">>
Row(line_num, content) ==
    <<" ", " ">> \o PadLeft(Digits(line_num), LineNumWidth) \o <<":", " ">>
        \o content
Note(n) == <<" ", " ", "+">> \o Digits(n)
Trailer(n) == Dots \o <<" ", "+">> \o Digits(n)

\* The outer check written with `>`
OuterCapPassed(s, m) == s > m

\* `if shown >= max_results { break; }` of the outer loop
OuterCapReached(s, m) == s >= m

\* The inner check written with `>`
InnerCapPassed(s, m) == s > m

\* `if shown >= max_results { break; }` of the inner loop
InnerCapReached(s, m) == s >= m

\* `if matches.len() > 10 { ... "  +{}\n", matches.len() - 10 }`
NoteLines(n) == IF n > PerFileCap THEN <<Note(n - PerFileCap)>> ELSE <<>>

\* `if total > shown { ... "... +{}\n", total - shown }`
TrailerLines(t, s) == IF t > s THEN <<Trailer(t - s)>> ELSE <<>>

----------------------------------------------------------------------------
(* Specification of run                                                    *)

MaxA == 3
BigFile == 25
MaxB == 11
MaxResults == 12
ShortLen == 2
LongLen == 8

FileA == <<"a">>
FileB == <<"b">>
\* 52 bytes in 4 segments: a path compact_path rewrites
SearchPath == <<"a", "/", "s", "/", "s", "/">> \o Repeat(<<"d">>, 46)

ALine(i) == FileA \o <<":">> \o Digits(i) \o <<":", "x">>
BLine(i) ==
    FileB \o <<":">> \o (IF i = 1 THEN <<"n">> ELSE Digits(i))
          \o <<":", " ", "x", ":", "y">>
PLine == <<"7", ":", "z", "z", "z", "z">>
JunkLine == <<"b", "i", "n">>
BlankLine == <<" ", " ">>

Stdout(na, nb, np, nj) ==
    [i \in 1..nj |-> JunkLine]
    \o [i \in 1..nb |-> BLine(i)]
    \o [i \in 1..np |-> PLine]
    \o [i \in 1..na |-> ALine(i)]

GrepInit ==
    /\ pc = "search"
    /\ stdout \in {<<BlankLine>>} \cup
                   {Stdout(na, nb, np, nj) :
                      na \in (0..MaxA) \cup {BigFile}, nb \in 0..MaxB,
                      np \in 0..1, nj \in 0..1}
    /\ path = SearchPath
    /\ pattern = <<"x">>
    /\ max_line_len \in {ShortLen, LongLen}
    /\ context_only = (max_line_len = LongLen)
    /\ max_results \in 0..MaxResults
    /\ by_file = EmptyMap /\ total = 0 /\ shown = 0 /\ files = <<>>
    /\ fidx = 0 /\ midx = 0 /\ rtk_output = <<>>
    /\ CleanIdle /\ PathIdle /\ JsonIdle

inputVars == <<stdout, path, max_line_len, max_results, sharedVars>>
otherVars == <<cleanVars, pathVars, jsonVars>>

\* lines 33-38: blank output is the zero report
Search ==
    /\ pc = "search"
    /\ IF IsBlank(stdout)
       THEN rtk_output' = <<ZeroMsg(pattern)>> /\ pc' = "done"
       ELSE rtk_output' = rtk_output /\ pc' = "parse"
    /\ UNCHANGED <<by_file, total, shown, files, fidx, midx, inputVars, otherVars>>

\* lines 40-66: group the matches, render the header, sort the files
Parse ==
    /\ pc = "parse"
    /\ \E g \in {Group(stdout, [panic |-> FALSE, total |-> 0, by_file |-> EmptyMap],
                      path, max_line_len, context_only, pattern)} :
           IF g.panic
           THEN /\ pc' = "panic"
                /\ UNCHANGED <<by_file, total, files, fidx, rtk_output>>
           ELSE /\ by_file' = g.by_file
                /\ total' = g.total
                /\ rtk_output' = <<Header(g.total, Cardinality(DOMAIN g.by_file)), <<>>>>
                /\ files' = SortStrings(Keys(DOMAIN g.by_file))
                /\ fidx' = 1
                /\ pc' = "files"
    /\ shown' = 0
    /\ UNCHANGED <<midx, inputVars, otherVars>>

\* lines 68-74: the head of the outer loop
NextFile ==
    /\ pc = "files"
    /\ IF fidx > Len(files) \/ OuterCapReached(shown, max_results)
       THEN pc' = "trailer" /\ UNCHANGED <<rtk_output, midx>>
       ELSE /\ rtk_output' = Append(rtk_output,
                 FileHeader(compact_path(files[fidx]), Len(by_file[files[fidx]])))
            /\ midx' = 1
            /\ pc' = "rows"
    /\ UNCHANGED <<by_file, total, shown, files, fidx, inputVars, otherVars>>

\* lines 76-82: one turn of the inner loop over matches.iter().take(10)
MatchRow ==
    /\ pc = "rows"
    /\ LET matches == by_file[files[fidx]]
       IN  IF midx > Min(PerFileCap, Len(matches))
           THEN pc' = "note" /\ UNCHANGED <<rtk_output, shown, midx>>
           ELSE /\ rtk_output' = Append(rtk_output,
                                        Row(matches[midx][1], matches[midx][2]))
                /\ shown' = shown + 1
                /\ IF InnerCapReached(shown', max_results)
                   THEN pc' = "note" /\ midx' = midx
                   ELSE pc' = "rows" /\ midx' = midx + 1
    /\ UNCHANGED <<by_file, total, files, fidx, inputVars, otherVars>>

\* The per-file note computed from the rows shown for the file
FileNoteOfShown ==
    /\ pc = "note"
    /\ LET n == Len(by_file[files[fidx]])
           heads == {i \in DOMAIN rtk_output : StartsWith(rtk_output[i], Page)}
           h == CHOOSE i \in heads : \A j \in heads : j <= i
           rows == Len(rtk_output) - h
       IN  rtk_output' = rtk_output
                \o (IF n > rows THEN <<Note(n - rows)>> ELSE <<>>) \o << <<>> >>
    /\ fidx' = fidx + 1
    /\ pc' = "files"
    /\ UNCHANGED <<by_file, total, shown, files, midx, inputVars, otherVars>>

\* lines 84-87: the per-file note and the blank line ending the file
FileNote ==
    /\ pc = "note"
    /\ rtk_output' = rtk_output \o NoteLines(Len(by_file[files[fidx]])) \o << <<>> >>
    /\ fidx' = fidx + 1
    /\ pc' = "files"
    /\ UNCHANGED <<by_file, total, shown, files, midx, inputVars, otherVars>>

\* lines 90-97: the trailing line, then the report is printed
Finish ==
    /\ pc = "trailer"
    /\ rtk_output' = rtk_output \o TrailerLines(total, shown)
    /\ pc' = "done"
    /\ UNCHANGED <<by_file, total, shown, files, fidx, midx, inputVars, otherVars>>

GrepNext == Search \/ Parse \/ NextFile \/ MatchRow \/ FileNote \/ Finish

SpecGrep == GrepInit /\ [][GrepNext]_vars

----------------------------------------------------------------------------
(* json_cmd.rs: extract_schema                                             *)

\* serde_json::Value.  A number keeps what extract_schema reads of it,
\* is_i64(); an object is its entries, with unique keys, in no set order.
Null == [kind |-> "null"]
Bool == [kind |-> "bool"]
Number(i64) == [kind |-> "number", is_i64 |-> i64]
String(s) == [kind |-> "string", s |-> s]
Array(arr) == [kind |-> "array", arr |-> arr]
Object(map) == [kind |-> "object", map |-> map]

\* `map[key]`
Lookup(map, key) == (CHOOSE i \in DOMAIN map : map[i].key = key)

\* `matches!(val, Value::Null | Value::Bool(_) | Value::Number(_) | Value::String(_))`
IsSimple(v) == v.kind \in {"null", "bool", "number", "string"}

LongString == 50
DateLen == 10
Http == <<"h", "t", "t", "p">>

\* The label of a string value (lines 42-57), without the indent
StringLabel(s) ==
    IF Len(s) > LongString
    THEN <<"s", "t", "r", "i", "n", "g", "[">> \o Digits(Len(s)) \o <<"]">>
    ELSE IF s = <<>> THEN <<"s", "t", "r", "i", "n", "g">>
    ELSE IF StartsWith(s, Http) THEN <<"u", "r", "l">>
    ELSE IF (\E i \in 1..Len(s) : s[i] = "-") /\ Len(s) = DateLen
    THEN <<"d", "a", "t", "e", "?">>
    ELSE <<"s", "t", "r", "i", "n", "g">>

\* The element of a non-empty array whose schema is rendered, taken last
LastElement(arr) == arr[Len(arr)]

\* `&arr[0]`: the element of a non-empty array whose schema is rendered
SampledElement(arr) == arr[1]

\* `if i >= 15`: the 0-based index of the last key listed
KeyLimit == 15

\* The count of the `more keys` line, one too many
MoreKeysFromIndex(n, i) == n - i

\* `keys.len() - i - 1`: the count of the `more keys` line
MoreKeys(n, i) == n - i - 1

MoreKeysLine(indent, n) ==
    indent \o <<" ", " ", ".", ".", ".", " ", "+">> \o Digits(n)
           \o <<" ", "m", "o", "r", "e", " ", "k", "e", "y", "s">>

\* The one or two lines of the key at index i (lines 80-96)
EntryLines(indent, key, val, val_schema, i, n) ==
    IF IsSimple(val)
    THEN IF i < n - 1
         THEN << indent \o <<" ", " ">> \o key \o <<":", " ">> \o Trim(val_schema)
                        \o <<",">> >>
         ELSE << indent \o <<" ", " ">> \o key \o <<":", " ">> \o Trim(val_schema) >>
    ELSE << indent \o <<" ", " ">> \o key \o <<":">>, val_schema >>

RECURSIVE extract_schema(_, _, _)
RECURSIVE KeyLines(_, _, _, _, _)

\* The loop over the sorted keys from index i on (lines 79-103), with the
\* break after the key at index KeyLimit
KeyLines(keys, i, map, d, md) ==
    IF i >= Len(keys) THEN <<>>
    ELSE LET indent == Repeat(<<" ", " ">>, d)
             val == map[Lookup(map, keys[i + 1])].val
             entry == EntryLines(indent, keys[i + 1], val,
                                 extract_schema(val, d + 1, md), i, Len(keys))
         IN  IF i >= KeyLimit
             THEN entry \o <<MoreKeysLine(indent, MoreKeys(Len(keys), i))>>
             ELSE entry \o KeyLines(keys, i + 1, map, d, md)

extract_schema(v, d, md) ==
    LET indent == Repeat(<<" ", " ">>, d)
    IN  IF d > md THEN indent \o Dots
        ELSE CASE v.kind = "null" -> indent \o <<"n", "u", "l", "l">>
               [] v.kind = "bool" -> indent \o <<"b", "o", "o", "l">>
               [] v.kind = "number" ->
                    IF v.is_i64 THEN indent \o <<"i", "n", "t">>
                    ELSE indent \o <<"f", "l", "o", "a", "t">>
               [] v.kind = "string" -> indent \o StringLabel(v.s)
               [] v.kind = "array" ->
                    IF v.arr = <<>> THEN indent \o <<"[", "]">>
                    ELSE LET first_schema ==
                                extract_schema(SampledElement(v.arr), d + 1, md)
                         IN  IF Len(v.arr) = 1
                             THEN indent \o <<"[", "\n">> \o first_schema
                                         \o <<"\n">> \o indent \o <<"]">>
                             ELSE indent \o <<"[">> \o Trim(first_schema)
                                         \o <<"]", " ", "(">> \o Digits(Len(v.arr))
                                         \o <<")">>
               [] v.kind = "object" ->
                    IF v.map = <<>> THEN indent \o <<"{", "}">>
                    ELSE Join(<<indent \o <<"{">> >>
                              \o KeyLines(SortStrings([i \in DOMAIN v.map |-> v.map[i].key]),
                                          0, v.map, d, md)
                              \o <<indent \o <<"}">> >>,
                              <<"\n">>)

----------------------------------------------------------------------------
(* Specification of extract_schema                                         *)

MaxKeys == 17
MaxArrayLen == 3
MaxDepthArg == 1
MaxMaxDepth == 2

Letters == <<"a", "b", "c", "d", "e">>

\* Distinct keys, of one or two letters, not in lexicographic order
KeyOf(i) ==
    <<Letters[((i * 3) % 5) + 1]>>
    \o (IF i \div 5 = 0 THEN <<>> ELSE <<Letters[((i \div 5) % 5) + 1]>>)

IsoDate == <<"2", "0", "2", "0", "-", "0", "1", "-", "0", "2">>
Abc == <<"a", "b", "c">>

Leaves ==
    {Null, Bool, Number(TRUE), Number(FALSE), String(<<>>), String(Http),
     String(IsoDate), String(Abc), String(Repeat(<<"s">>, LongString + 1))}

\* The values of array elements
Elements ==
    <<Number(TRUE), String(Abc), Array(<<Null, Null>>),
      Object(<<[key |-> Abc, val |-> Bool]>>)>>

\* The values of object entries
EntryValues ==
    <<Number(TRUE), Null, String(IsoDate), Array(<<Number(FALSE), Bool>>),
      Object(<<[key |-> Abc, val |-> Number(TRUE)]>>), Array(<<String(Http)>>),
      Number(FALSE)>>

Arrays ==
    {Array(a) : a \in UNION {[1..n -> {Elements[i] : i \in DOMAIN Elements}] :
                               n \in 0..MaxArrayLen}}

\* The object whose keys are KeyOf(lo)..KeyOf(hi), its values taken in turn
\* from EntryValues starting at off
ObjectOf(lo, hi, off) ==
    Object([j \in 1..(hi - lo + 1) |->
              [key |-> KeyOf(lo + j - 1),
               val |-> EntryValues[((lo + j + off) % Len(EntryValues)) + 1]]])

Objects ==
    {ObjectOf(lo, hi, off) :
        lo \in 1..MaxKeys, hi \in 0..MaxKeys, off \in 0..(Len(EntryValues) - 1)}

\* Every call of extract_schema, the recursive ones included: run calls it
\* at depth 0, and a value nested in it is reached at a depth that may pass
\* max_depth.
JsonInit ==
    /\ pc = "call"
    /\ value \in Leaves \cup Arrays \cup Objects
    /\ depth \in 0..MaxDepthArg
    /\ max_depth \in 0..MaxMaxDepth
    /\ schema = <<>>
    /\ value2 = Null
    /\ schema2 = <<>>
    /\ CleanIdle /\ SharedIdle /\ PathIdle /\ GrepIdle

ExtractSchema ==
    /\ pc = "call"
    /\ schema' = extract_schema(value, depth, max_depth)
    /\ pc' = "done"
    /\ UNCHANGED <<value, depth, max_depth, value2, schema2,
                   cleanVars, sharedVars, pathVars, grepVars>>

\* The same call on an array of the same length and first element
ExtractSibling ==
    /\ pc = "done"
    /\ value.kind = "array"
    /\ value.arr # <<>>
    /\ \E rest \in [2..Len(value.arr) -> {Elements[i] : i \in DOMAIN Elements}] :
          value2' = Array([i \in 1..Len(value.arr) |->
                             IF i = 1 THEN value.arr[1] ELSE rest[i]])
    /\ schema2' = extract_schema(value2', depth, max_depth)
    /\ pc' = "compared"
    /\ UNCHANGED <<value, depth, max_depth, schema,
                   cleanVars, sharedVars, pathVars, grepVars>>

JsonNext == ExtractSchema \/ ExtractSibling

SpecJson == JsonInit /\ [][JsonNext]_vars

----------------------------------------------------------------------------
(* Claims about clean_line                                                 *)

\* C1: for every line, pattern, max_len and context_only, the string
\* clean_line returns is at most max_len long.
C1_LengthBound ==
    pc = "done" => Len(cleaned.text) <= max_len

\* C2: clean_line does not panic when max_len < 3.
C2_NoPanic ==
    max_len < 3 => pc # "panic"

----------------------------------------------------------------------------
(* Claims about compact_path                                               *)

\* C5: compact_path is idempotent: compacting a compacted path returns it
\* unchanged.
C5_Idempotent ==
    pc = "done" => file_display2 = file_display

\* A path whose compacted form is still longer than PathLimit, or starts
\* with an empty segment, has been compacted twice.
C5_Witness ==
    /\ pc = "done"
    /\ file_display # file
    /\ Len(file_display) > PathLimit
    /\ file[1] = "/"

\* C6: for a path with more than 3 segments and more than 50 characters the
\* compacted path is not longer than the path.
C6_NeverLonger ==
    (pc # "call" /\ Len(Split(file, "/")) > SegmentLimit /\ Len(file) > PathLimit)
        => Len(file_display) <= Len(file)

----------------------------------------------------------------------------
(* Reading the report and the raw output, for the claims about run         *)

IsRowLine(l) == StartsWith(l, <<" ", " ">>) /\ ~StartsWith(l, <<" ", " ", "+">>)
IsNoteLine(l) == StartsWith(l, <<" ", " ", "+">>)
IsFileHeaderLine(l) == StartsWith(l, Page)
IsTrailerLine(l) == StartsWith(l, Dots \o <<" ", "+">>)

RowIndexes == {i \in DOMAIN rtk_output : IsRowLine(rtk_output[i])}
NoteIndexes == {i \in DOMAIN rtk_output : IsNoteLine(rtk_output[i])}
HeaderIndexes == {i \in DOMAIN rtk_output : IsFileHeaderLine(rtk_output[i])}
TrailerIndexes == {i \in DOMAIN rtk_output : IsTrailerLine(rtk_output[i])}

\* The raw matches of the output: the lines that split into two or three fields
RawIndexes == {i \in DOMAIN stdout : Len(SplitN(stdout[i], 3, ":")) >= 2}
RawFile(i) ==
    LET parts == SplitN(stdout[i], 3, ":")
    IN  IF Len(parts) = 3 THEN parts[1] ELSE path
MatchedFiles == {RawFile(i) : i \in RawIndexes}
MatchCount(f) == Cardinality({i \in RawIndexes : RawFile(i) = f})

\* The place of a matched file in lexicographic order
Rank(f) == Cardinality({g \in MatchedFiles : StrLess(g, f)}) + 1

\* The number of match rows that follow line h of the report
RowsAfter(h) ==
    CHOOSE r \in 0..(Len(rtk_output) - h) :
        /\ \A j \in 1..r : (h + j) \in RowIndexes
        /\ (h + r + 1) \notin RowIndexes

\* The file whose header is line h of the report
HeaderRank(h) == Cardinality({i \in HeaderIndexes : i <= h})

----------------------------------------------------------------------------
(* Claims about run                                                        *)

\* C3: at every point of the render loop the number of rendered match rows,
\* which is the shown counter, is at most max_results (0 included).
C3_RowsWithinCap ==
    /\ shown = Cardinality(RowIndexes)
    /\ Cardinality(RowIndexes) <= max_results

\* The cap was reached after a file boundary, with matches left over.
C3_Witness ==
    /\ pc = "done"
    /\ Cardinality(HeaderIndexes) >= 2
    /\ max_results > PerFileCap
    /\ Cardinality(RowIndexes) = max_results
    /\ Cardinality(RawIndexes) > max_results

\* C4: when no line of the output is a raw match, the run succeeds and the
\* report is the single line `<mag> 0 for '<pattern>'`.
C4_ZeroReport ==
    RawIndexes = {} =>
        /\ pc # "panic"
        /\ pc = "done" => rtk_output = <<ZeroMsg(pattern)>>

\* C9: every file with a header and n > 10 matches has the note `  +<n - 10>`
\* right after its match rows, however many rows were shown; 25 matches in
\* one file with max_results = 10 give 10 rows, the note `+15` and the
\* trailing `... +15`.
C9_PerFileNote ==
    pc = "done" =>
        /\ \A h \in HeaderIndexes, f \in MatchedFiles :
              \A n \in {MatchCount(f)}, after \in {h + RowsAfter(h) + 1} :
                 (Rank(f) = HeaderRank(h) /\ n > 10) =>
                     /\ after <= Len(rtk_output)
                     /\ rtk_output[after] = Note(n - 10)
        /\ (Cardinality(RawIndexes) = 25 /\ Cardinality(MatchedFiles) = 1
            /\ max_results = 10) =>
              /\ Cardinality(RowIndexes) = 10
              /\ {rtk_output[i] : i \in NoteIndexes} = {Note(15)}
              /\ Cardinality(NoteIndexes) = 1
              /\ rtk_output[Len(rtk_output)] = Trailer(15)

\* The global cap was hit inside a file with more than 10 matches, before
\* 10 of its rows were shown.
C9_Witness ==
    /\ pc = "done"
    /\ \E h \in HeaderIndexes, f \in MatchedFiles :
          /\ Rank(f) = HeaderRank(h)
          /\ MatchCount(f) > 10
          /\ RowsAfter(h) < 10
          /\ RowsAfter(h) > 0

\* The files of the report are the first files in lexicographic order.
ReportIsPrefix ==
    /\ Cardinality(HeaderIndexes) <= Cardinality(MatchedFiles)
    /\ \A h \in HeaderIndexes :
          \E f \in MatchedFiles :
             /\ Rank(f) = HeaderRank(h)
             /\ rtk_output[h] = FileHeader(compact_path(f), MatchCount(f))

\* Exactly one trailing line, counting the matches not shown, when there are any.
TrailerIffOmitted ==
    pc = "done" /\ RawIndexes # {} =>
        LET rest == Cardinality(RawIndexes) - Cardinality(RowIndexes)
        IN  IF rest > 0
            THEN /\ TrailerIndexes = {Len(rtk_output)}
                 /\ rtk_output[Len(rtk_output)] = Trailer(rest)
            ELSE TrailerIndexes = {}

\* Nothing is rendered for a file reached with the cap already hit: every
\* file header was appended with fewer than max_results rows before it, and
\* rows and notes stand only in the section a header opens.
NothingAfterCap ==
    /\ \A h \in HeaderIndexes :
          Cardinality({r \in RowIndexes : r < h}) < max_results
    /\ \A i \in RowIndexes \cup NoteIndexes :
          \E h \in HeaderIndexes : h < i

\* C10: the files of the report are a prefix of the matched files in
\* lexicographic order; once shown has reached max_results no later file
\* gets a header, a row or a note; the matches left out are counted in the
\* trailing `... +<total - shown>` line, emitted exactly when total exceeds
\* shown.
C10_PrefixThenTrailer ==
    ReportIsPrefix /\ TrailerIffOmitted /\ NothingAfterCap

\* A file was left out of the report after at least one was rendered.
C10_Witness ==
    /\ pc = "done"
    /\ Cardinality(HeaderIndexes) >= 1
    /\ Cardinality(HeaderIndexes) < Cardinality(MatchedFiles)
    /\ TrailerIndexes # {}

----------------------------------------------------------------------------
(* Reading the schema text, for the claims about extract_schema            *)

SchemaLines == Split(schema, "\n")
Indent == Repeat(<<" ", " ">>, depth)

\* A line of the object rendered at `depth` that lists one of its keys: the
\* indent, two spaces, then the key (the keys of the model are letters).
IsKeyLine(l) ==
    /\ StartsWith(l, Indent \o <<" ", " ">>)
    /\ Len(l) > Len(Indent) + 2
    /\ l[Len(Indent) + 3] \in {Letters[i] : i \in DOMAIN Letters}

KeyOfLine(l) ==
    LET rest == SubSeq(l, Len(Indent) + 3, Len(l))
    IN  SplitN(rest, 2, ":")[1]

KeyLineIndexes == {i \in DOMAIN SchemaLines : IsKeyLine(SchemaLines[i])}
MoreLineIndexes ==
    {i \in DOMAIN SchemaLines :
        StartsWith(SchemaLines[i], Indent \o <<" ", " ", ".", ".", ".", " ", "+">>)}

ObjectKeys == {value.map[i].key : i \in DOMAIN value.map}
KeyRank(k) == Cardinality({g \in ObjectKeys : StrLess(g, k)}) + 1

----------------------------------------------------------------------------
(* Claims about extract_schema                                             *)

\* C7: a non-empty object at a depth within max_depth lists its 16 smallest
\* keys at most, in lexicographic order; with 16 keys or more the listing
\* ends after the 16th with `... +<N> more keys`, N the number of keys not
\* listed.
C7_KeyCap ==
    (pc # "call" /\ value.kind = "object" /\ value.map # <<>>
     /\ depth <= max_depth) =>
        \A n \in {Len(value.map)}, lines \in {SchemaLines}, listed \in {KeyLineIndexes} :
            /\ Cardinality(listed) = Min(16, n)
            /\ \A i \in listed :
                  \A k \in {KeyOfLine(lines[i])} :
                     /\ k \in ObjectKeys
                     /\ KeyRank(k) = Cardinality({j \in listed : j <= i})
            /\ n >= 16 =>
                  /\ MoreLineIndexes = {Len(lines) - 1}
                  /\ lines[Len(lines) - 1] = MoreKeysLine(Indent, n - 16)
                  /\ lines[Len(lines)] = Indent \o <<"}">>

\* An object of more than 16 keys, some of them not simple, was rendered.
C7_Witness ==
    /\ pc = "done"
    /\ value.kind = "object"
    /\ depth <= max_depth
    /\ Len(value.map) > 16
    /\ \E i \in DOMAIN value.map : ~IsSimple(value.map[i].val)
    /\ Cardinality(KeyLineIndexes) = 16

\* The inline form of an array of `n` elements whose first is `first`
InlineForm(first, n) ==
    Indent \o <<"[">> \o Trim(extract_schema(first, depth + 1, max_depth))
           \o <<"]", " ", "(">> \o Digits(n) \o <<")">>

\* C8: two arrays of the same length and first element have the same
\* schema; for length > 1 the text is the trimmed schema of the first
\* element in brackets followed by `(<count>)`.
C8_FirstElementOnly ==
    pc = "compared" =>
        /\ schema2 = schema
        /\ Len(value.arr) > 1 => schema = InlineForm(value.arr[1], Len(value.arr))

\* C8, amended: the inline form is the text for length > 1 at a depth within
\* max_depth; past max_depth the text is the indent and `...`.
C8_FirstElementWithinDepth ==
    pc = "compared" =>
        /\ schema2 = schema
        /\ (Len(value.arr) > 1 /\ depth <= max_depth) =>
              schema = InlineForm(value.arr[1], Len(value.arr))
        /\ depth > max_depth => schema = Indent \o Dots

\* Two different arrays of more than one element were rendered within
\* max_depth.
C8_Witness ==
    /\ pc = "compared"
    /\ value2 # value
    /\ Len(value.arr) > 1
    /\ value.arr[Len(value.arr)] # value2.arr[Len(value.arr)]
    /\ depth <= max_depth

====
